---- MODULE Spec2Model ----
(***************************************************************************)
(* Model of AArenaCharacter (PixelArena/Source/PixelArena/                 *)
(* ArenaCharacter.cpp): the directional-input map, the attack and ability  *)
(* input handlers, the blueprint-callable BeginAttack / FinishAttack /     *)
(* FinishAbility / ResetCooldown / ResetInput, and the Tick state loop.    *)
(*                                                                         *)
(* Time is the reading of FDateTime::Now() in milliseconds.  One handler   *)
(* runs within one clock reading; the clock advances between handlers.     *)
(* The blueprint events IdleState, WalkingState, AttackState,              *)
(* AbilityState, AbilityStart and AbilityEnd are recorded, in call order,  *)
(* in the variable hooks; the blueprint-callable functions they may use    *)
(* are actions of their own.                                               *)
(***************************************************************************)
EXTENDS Integers, Sequences, FiniteSets

\* ---------------------------------------------------------------- bounds

\* The clock reading when the character is constructed (far from tick 0).
ClockEpoch == 100

\* The clock is read at ClockEpoch .. ClockEpoch + MaxTime.
MaxTime == 3

\* AttackDamage is one of 0 .. MaxDamage.
MaxDamage == 10

\* Attack is called with a damageModifier of 0 .. MaxModifier.
MaxModifier == 3

\* ------------------------------------------------------------- constants

\* static FDateTime InputReleaseTime = -1
InputReleaseTime == -1

\* The value FinishAttack, FinishAbility and ResetCooldown store in a timer.
ClearedTime == -1

\* FDateTime(): the timestamp of a default-constructed TPair in UpdateFacing.
DefaultTime == 0

\* UPROPERTY AbilityCooldown (milliseconds) of ArenaCharacter.h.
AbilityCooldown == 2

\* UPROPERTY MoveSpeed of ArenaCharacter.h.
MoveSpeed == 1

North == "North"
East == "East"
South == "South"
West == "West"

\* enum Direction of ArenaCharacter.h.
Direction == {North, East, South, West}

\* The Direction a value-initialised TEnumAsByte<Direction> holds (value 0).
DefaultDirection == North

Idle == "Idle"
Walking == "Walking"
Attacking == "Attacking"
Ability == "Ability"

\* enum of CharacterState in ArenaCharacter.h.
CharacterStates == {Idle, Walking, Attacking, Ability}

\* The order in which the constructor adds the keys to MoveInputMap, which is
\* the order a range-for over the TMap visits them.
MapOrder == <<North, East, South, West>>

ZeroVector == <<0, 0, 0>>

\* The actors Attack can be called with: the character itself and two others.
Self == "Self"
Other == "Other"
Bystander == "Bystander"
Actors == {Self, Other, Bystander}

VARIABLES
    now,                 \* FDateTime::Now()
    MoveInputMap,        \* TMap<Direction, FDateTime>
    bIsMoving,
    Facing,
    MoveDirection,
    Velocity,            \* FVector
    CharacterState,
    attackKeyDown,
    bIsAttacking,
    attackDownTime,
    attackStarted,
    abilityKeyDown,
    bIsAbility,
    abilityDownTime,
    abilityCooldownTime,
    AttackBoxes,         \* Direction -> collision of the hitbox enabled
    held,                \* Direction -> the last input event was a press
    hooks,               \* the blueprint events the last step called, in order
    lastCall,            \* the last step: <<operation, arguments>>
    abilityStarts,       \* the clock at the last two calls of AbilityStart
    AttackDamage,        \* UPROPERTY AttackDamage of ArenaCharacter.h
    damaged,             \* the Damage calls of the last Attack: <<actor, amount>>
    cooldownReset,       \* ResetCooldown was called after the last AbilityStart
    abilityOpen,         \* AbilityStart was called and AbilityEnd not yet
    attackWait           \* ticks in Idle or Walking that left an attack waiting

moveVars == <<MoveInputMap, bIsMoving, held>>
faceVars == <<Facing, MoveDirection>>
attackVars == <<attackKeyDown, bIsAttacking, attackDownTime, attackStarted>>
abilityVars == <<abilityKeyDown, bIsAbility, abilityDownTime, abilityCooldownTime>>
damageVars == <<AttackDamage, damaged>>

vars == <<now, MoveInputMap, bIsMoving, Facing, MoveDirection, Velocity,
          CharacterState, attackKeyDown, bIsAttacking, attackDownTime,
          attackStarted, abilityKeyDown, bIsAbility, abilityDownTime,
          abilityCooldownTime, AttackBoxes, held, hooks, lastCall,
          abilityStarts, AttackDamage, damaged, cooldownReset, abilityOpen,
          attackWait>>

\* -------------------------------------------------------- pure functions

\* SetVelocity with the assignment of case West lost.
SetVelocityWestLost(speed, direction, velocity) ==
    CASE direction = North -> <<0, 0, speed>>
      [] direction = East  -> <<speed, 0, 0>>
      [] direction = South -> <<0, 0, 0 - speed>>
      [] OTHER             -> velocity

\* FVector SetVelocity stores for (speed, direction).
SetVelocity(speed, direction, velocity) ==
    CASE direction = North -> <<0, 0, speed>>
      [] direction = East  -> <<speed, 0, 0>>
      [] direction = South -> <<0, 0, 0 - speed>>
      [] direction = West  -> <<0 - speed, 0, 0>>
      [] OTHER             -> velocity

\* Move(): SetVelocity(MoveSpeed, MoveDirection).
Move(moveDirection, velocity) == SetVelocity(MoveSpeed, moveDirection, velocity)

\* MoveInputMap[direction] = keyDown ? FDateTime::Now() : InputReleaseTime
StampInput(map, direction, keyDown, t) ==
    [map EXCEPT ![direction] = IF keyDown THEN t ELSE InputReleaseTime]

\* AnyKeyDown with the test of East forgotten.
AnyKeyDownNoEast(map) ==
    \/ map[North] > InputReleaseTime
    \/ map[West] > InputReleaseTime
    \/ map[South] > InputReleaseTime

\* The condition UpdateMovementInput stores in bIsMoving.
AnyKeyDown(map) ==
    \/ map[North] > InputReleaseTime
    \/ map[West] > InputReleaseTime
    \/ map[South] > InputReleaseTime
    \/ map[East] > InputReleaseTime

\* MoreRecent with >= for >: the last of several equal timestamps wins.
MoreRecentOrEqual(value, recentValue) == value >= recentValue

\* The test of the loop of UpdateFacing: pair.Value > recent.Value.
MoreRecent(value, recentValue) == value > recentValue

\* The loop of UpdateFacing from the i-th entry of the map on; recent is
\* <<Key, Value>>.
RECURSIVE MostRecent(_, _, _)
MostRecent(map, i, recent) ==
    IF i > Len(MapOrder) THEN recent
    ELSE LET d == MapOrder[i] IN
         MostRecent(map, i + 1,
                    IF MoreRecent(map[d], recent[2]) THEN <<d, map[d]>> ELSE recent)

\* UpdateFacing without the test of bIsMoving.
UpdateFacingAlways(map, moving, facing, moveDirection) ==
    LET recent == MostRecent(map, 1, <<DefaultDirection, DefaultTime>>) IN
    <<recent[1], recent[1]>>

\* UpdateFacing(): the new <<Facing, MoveDirection>>.
UpdateFacing(map, moving, facing, moveDirection) ==
    LET recent == MostRecent(map, 1, <<DefaultDirection, DefaultTime>>) IN
    IF moving THEN <<recent[1], recent[1]>> ELSE <<facing, moveDirection>>

\* SinceLastUse read in microseconds (GetTotalMicroseconds).
SinceLastUseMicroseconds(t, cooldownTime) ==
    1000 * (IF t - cooldownTime < 0 THEN cooldownTime - t ELSE t - cooldownTime)

\* (FDateTime::Now() - abilityCooldownTime).GetDuration().GetTotalMilliseconds()
SinceLastUse(t, cooldownTime) ==
    IF t - cooldownTime < 0 THEN cooldownTime - t ELSE t - cooldownTime

\* AbilityBlocked without the test of the cooldown.
AbilityBlockedNoCooldown(t, cooldownTime, isAbility) == isAbility

\* AbilityBlocked without the test of bIsAbility.
AbilityBlockedNoActive(t, cooldownTime, isAbility) ==
    SinceLastUse(t, cooldownTime) < AbilityCooldown

\* The early return of UpdateAbilityInput.
AbilityBlocked(t, cooldownTime, isAbility) ==
    SinceLastUse(t, cooldownTime) < AbilityCooldown \/ isAbility

\* FGenericPlatformMath::Pow on whole numbers.
RECURSIVE Pow(_, _)
Pow(base, exponent) ==
    IF exponent = 0 THEN 1 ELSE base * Pow(base, exponent - 1)

\* The damage of the comment above Attack: "multiplied by" damageModifier.
DamageAmountLinear(attackDamage, damageModifier) == attackDamage * damageModifier

\* The argument Attack hands to Damage.
DamageAmount(attackDamage, damageModifier) ==
    attackDamage * Pow(2, damageModifier)

\* ------------------------------------------------------------------ Init

\* The member defaults of ArenaCharacter.h.
HeaderDefaults ==
    /\ bIsMoving = FALSE
    /\ Facing = DefaultDirection
    /\ MoveDirection = DefaultDirection
    /\ Velocity = ZeroVector
    /\ CharacterState = Idle
    /\ attackKeyDown = FALSE
    /\ bIsAttacking = FALSE
    /\ attackDownTime = ClearedTime
    /\ attackStarted = FALSE
    /\ abilityKeyDown = FALSE
    /\ bIsAbility = FALSE
    /\ abilityDownTime = ClearedTime
    /\ abilityCooldownTime = ClearedTime

\* The constructor, and SetHitbox called once for each direction.
Constructed ==
    /\ now = ClockEpoch
    /\ MoveInputMap = [d \in Direction |-> InputReleaseTime]
    /\ HeaderDefaults
    /\ AttackBoxes = [d \in Direction |-> FALSE]
    /\ held = [d \in Direction |-> FALSE]
    /\ hooks = <<>>
    /\ lastCall = <<"AArenaCharacter">>
    /\ abilityStarts = <<>>
    /\ damaged = <<>>
    /\ cooldownReset = FALSE
    /\ abilityOpen = FALSE
    /\ attackWait = 0

\* The character with AttackDamage at MaxDamage.
Init == Constructed /\ AttackDamage = MaxDamage

\* The character with any AttackDamage of 0 .. MaxDamage.
InitAttack == Constructed /\ AttackDamage \in 0..MaxDamage

\* --------------------------------------------------------------- actions

\* The ghost abilityStarts after AbilityStart() is called at clock t.
RecordStart(starts, t) ==
    IF Len(starts) < 2 THEN Append(starts, t) ELSE <<starts[2], t>>

\* The ghost attackWait after a tick in the Idle or Walking state: the ticks
\* that found bIsAttacking true and did not go to Attacking, counted to 2.
AttackWaitAfter(wait, attacking, nextState) ==
    IF attacking /\ nextState # Attacking
    THEN (IF wait < 2 THEN wait + 1 ELSE wait)
    ELSE 0

\* The clock moves on between two calls.
Advance ==
    /\ now < ClockEpoch + MaxTime
    /\ now' = now + 1
    /\ hooks' = <<>>
    /\ lastCall' = <<"Advance">>
    /\ UNCHANGED <<damageVars, cooldownReset, abilityOpen, attackWait>>
    /\ UNCHANGED <<moveVars, faceVars, Velocity, CharacterState, attackVars,
                   abilityVars, AttackBoxes, abilityStarts>>

UpdateMovementInput(direction, keyDown) ==
    /\ MoveInputMap' = StampInput(MoveInputMap, direction, keyDown, now)
    /\ bIsMoving' = AnyKeyDown(MoveInputMap')
    /\ held' = [held EXCEPT ![direction] = keyDown]
    /\ hooks' = <<>>
    /\ lastCall' = <<"UpdateMovementInput", direction, keyDown>>
    /\ UNCHANGED <<damageVars, cooldownReset, abilityOpen, attackWait>>
    /\ UNCHANGED <<now, faceVars, Velocity, CharacterState, attackVars,
                   abilityVars, AttackBoxes, abilityStarts>>

\* UpdateAttackInput without the test of bIsAttacking.
UpdateAttackInputNoGuard(active) ==
    /\ attackKeyDown' = active
    /\ IF active
       THEN /\ bIsAttacking' = TRUE
            /\ attackDownTime' = now
       ELSE UNCHANGED <<bIsAttacking, attackDownTime>>
    /\ hooks' = <<>>
    /\ lastCall' = <<"UpdateAttackInput", active>>
    /\ UNCHANGED <<damageVars, cooldownReset, abilityOpen, attackWait>>
    /\ UNCHANGED <<now, moveVars, faceVars, Velocity, CharacterState,
                   attackStarted, abilityVars, AttackBoxes, abilityStarts>>

UpdateAttackInput(active) ==
    /\ attackKeyDown' = active
    /\ IF ~bIsAttacking /\ active
       THEN /\ bIsAttacking' = TRUE
            /\ attackDownTime' = now
       ELSE UNCHANGED <<bIsAttacking, attackDownTime>>
    /\ hooks' = <<>>
    /\ lastCall' = <<"UpdateAttackInput", active>>
    /\ UNCHANGED <<damageVars, cooldownReset, abilityOpen, attackWait>>
    /\ UNCHANGED <<now, moveVars, faceVars, Velocity, CharacterState,
                   attackStarted, abilityVars, AttackBoxes, abilityStarts>>

UpdateAbilityInput(active) ==
    /\ abilityKeyDown' = active
    /\ IF AbilityBlocked(now, abilityCooldownTime, bIsAbility)
       THEN /\ hooks' = <<>>
            /\ UNCHANGED <<bIsAbility, abilityDownTime, abilityCooldownTime,
                           abilityStarts, cooldownReset, abilityOpen>>
       ELSE IF active
            THEN /\ hooks' = <<"AbilityStart">>
                 /\ abilityStarts' = RecordStart(abilityStarts, now)
                 /\ bIsAbility' = TRUE
                 /\ abilityDownTime' = now
                 /\ abilityCooldownTime' = now
                 /\ cooldownReset' = FALSE
                 /\ abilityOpen' = TRUE
            ELSE /\ hooks' = <<>>
                 /\ UNCHANGED <<bIsAbility, abilityDownTime, abilityCooldownTime,
                                abilityStarts, cooldownReset, abilityOpen>>
    /\ lastCall' = <<"UpdateAbilityInput", active>>
    /\ UNCHANGED <<damageVars, attackWait>>
    /\ UNCHANGED <<now, moveVars, faceVars, Velocity, CharacterState,
                   attackVars, AttackBoxes>>

BeginAttack ==
    /\ AttackBoxes' = [AttackBoxes EXCEPT ![Facing] = TRUE]
    /\ attackStarted' = TRUE
    /\ hooks' = <<>>
    /\ lastCall' = <<"BeginAttack">>
    /\ UNCHANGED <<damageVars, cooldownReset, abilityOpen, attackWait>>
    /\ UNCHANGED <<now, moveVars, faceVars, Velocity, CharacterState,
                   attackKeyDown, bIsAttacking, attackDownTime, abilityVars,
                   abilityStarts>>

\* FinishAttack leaving the hitbox as it is.
FinishAttackKeepsHitbox ==
    /\ bIsAttacking' = FALSE
    /\ attackDownTime' = ClearedTime
    /\ attackStarted' = FALSE
    /\ hooks' = <<>>
    /\ lastCall' = <<"FinishAttack">>
    /\ attackWait' = 0
    /\ UNCHANGED <<damageVars, cooldownReset, abilityOpen>>
    /\ UNCHANGED <<now, moveVars, faceVars, Velocity, CharacterState,
                   attackKeyDown, abilityVars, AttackBoxes, abilityStarts>>

FinishAttack ==
    /\ bIsAttacking' = FALSE
    /\ attackDownTime' = ClearedTime
    /\ attackStarted' = FALSE
    /\ AttackBoxes' = [AttackBoxes EXCEPT ![Facing] = FALSE]
    /\ hooks' = <<>>
    /\ lastCall' = <<"FinishAttack">>
    /\ attackWait' = 0
    /\ UNCHANGED <<damageVars, cooldownReset, abilityOpen>>
    /\ UNCHANGED <<now, moveVars, faceVars, Velocity, CharacterState,
                   attackKeyDown, abilityVars, abilityStarts>>

\* FinishAbility clearing abilityCooldownTime as well.
FinishAbilityClearsCooldown ==
    /\ bIsAbility' = FALSE
    /\ abilityDownTime' = ClearedTime
    /\ abilityCooldownTime' = ClearedTime
    /\ hooks' = <<>>
    /\ lastCall' = <<"FinishAbility">>
    /\ UNCHANGED <<damageVars, cooldownReset, abilityOpen, attackWait>>
    /\ UNCHANGED <<now, moveVars, faceVars, Velocity, CharacterState,
                   attackVars, abilityKeyDown, AttackBoxes, abilityStarts>>

FinishAbility ==
    /\ bIsAbility' = FALSE
    /\ abilityDownTime' = ClearedTime
    /\ hooks' = <<>>
    /\ lastCall' = <<"FinishAbility">>
    /\ UNCHANGED <<damageVars, cooldownReset, abilityOpen, attackWait>>
    /\ UNCHANGED <<now, moveVars, faceVars, Velocity, CharacterState,
                   attackVars, abilityKeyDown, abilityCooldownTime, AttackBoxes,
                   abilityStarts>>

\* ResetCooldown leaving abilityCooldownTime as it is.
ResetCooldownKeepsTime ==
    /\ hooks' = <<>>
    /\ lastCall' = <<"ResetCooldown">>
    /\ cooldownReset' = TRUE
    /\ UNCHANGED <<damageVars, abilityOpen, attackWait>>
    /\ UNCHANGED <<now, moveVars, faceVars, Velocity, CharacterState,
                   attackVars, abilityVars, AttackBoxes, abilityStarts>>

ResetCooldown ==
    /\ abilityCooldownTime' = ClearedTime
    /\ hooks' = <<>>
    /\ lastCall' = <<"ResetCooldown">>
    /\ cooldownReset' = TRUE
    /\ UNCHANGED <<damageVars, abilityOpen, attackWait>>
    /\ UNCHANGED <<now, moveVars, faceVars, Velocity, CharacterState,
                   attackVars, abilityKeyDown, bIsAbility, abilityDownTime,
                   AttackBoxes, abilityStarts>>

\* Attack(other, damageModifier): the Damage call of the step is in damaged.
Attack(other, damageModifier) ==
    /\ damaged' = IF other = Self
                  THEN <<>>
                  ELSE << <<other, DamageAmount(AttackDamage, damageModifier)>> >>
    /\ hooks' = <<>>
    /\ lastCall' = <<"Attack", other, damageModifier>>
    /\ UNCHANGED <<AttackDamage, cooldownReset, abilityOpen, attackWait>>
    /\ UNCHANGED <<now, moveVars, faceVars, Velocity, CharacterState, attackVars,
                   abilityVars, AttackBoxes, abilityStarts>>

\* ResetInput(): w, a, s, d are what IsInputKeyDown answers for the four keys.
\* UpdateAbilityInput(false) and UpdateAttackInput(false) store the key flag
\* and nothing else.
ResetInput(w, a, s, d) ==
    LET m1 == StampInput(MoveInputMap, North, w, now)
        m2 == StampInput(m1, West, a, now)
        m3 == StampInput(m2, South, s, now)
        m4 == StampInput(m3, East, d, now)
    IN  /\ MoveInputMap' = m4
        /\ bIsMoving' = AnyKeyDown(m4)
        /\ held' = [x \in Direction |->
                       CASE x = North -> w [] x = West -> a
                         [] x = South -> s [] x = East -> d]
        /\ abilityKeyDown' = FALSE
        /\ attackKeyDown' = FALSE
        /\ hooks' = <<>>
        /\ lastCall' = <<"ResetInput">>
        /\ UNCHANGED <<damageVars, cooldownReset, abilityOpen, attackWait>>
        /\ UNCHANGED <<now, faceVars, Velocity, CharacterState, bIsAttacking,
                       attackDownTime, attackStarted, bIsAbility,
                       abilityDownTime, abilityCooldownTime, AttackBoxes,
                       abilityStarts>>

\* TickIdle with the test of bIsAttacking before the test of bIsMoving.
TickIdleAttackFirst ==
    /\ CharacterState = Idle
    /\ LET resolved == UpdateFacing(MoveInputMap, bIsMoving, Facing, MoveDirection)
       IN  Facing' = resolved[1] /\ MoveDirection' = resolved[2]
    /\ hooks' = <<"IdleState">>
    /\ CharacterState' = IF bIsAttacking THEN Attacking
                         ELSE IF bIsMoving THEN Walking
                         ELSE IF bIsAbility THEN Ability
                         ELSE Idle
    /\ lastCall' = <<"Tick">>
    /\ attackWait' = AttackWaitAfter(attackWait, bIsAttacking, CharacterState')
    /\ UNCHANGED <<damageVars, cooldownReset, abilityOpen>>
    /\ UNCHANGED <<now, moveVars, Velocity, attackVars, abilityVars, AttackBoxes,
                   abilityStarts>>

\* TickIdle going on to the test of bIsAttacking after it has set Walking.
TickIdleFallsThrough ==
    /\ CharacterState = Idle
    /\ LET resolved == UpdateFacing(MoveInputMap, bIsMoving, Facing, MoveDirection)
       IN  Facing' = resolved[1] /\ MoveDirection' = resolved[2]
    /\ hooks' = <<"IdleState">>
    /\ CharacterState' = IF bIsAttacking THEN Attacking
                         ELSE IF bIsAbility THEN Ability
                         ELSE IF bIsMoving THEN Walking
                         ELSE Idle
    /\ lastCall' = <<"Tick">>
    /\ attackWait' = AttackWaitAfter(attackWait, bIsAttacking, CharacterState')
    /\ UNCHANGED <<damageVars, cooldownReset, abilityOpen>>
    /\ UNCHANGED <<now, moveVars, Velocity, attackVars, abilityVars, AttackBoxes,
                   abilityStarts>>

\* Tick, case Idle.
TickIdle ==
    /\ CharacterState = Idle
    /\ LET resolved == UpdateFacing(MoveInputMap, bIsMoving, Facing, MoveDirection)
       IN  Facing' = resolved[1] /\ MoveDirection' = resolved[2]
    /\ hooks' = <<"IdleState">>
    /\ CharacterState' = IF bIsMoving THEN Walking
                         ELSE IF bIsAttacking THEN Attacking
                         ELSE IF bIsAbility THEN Ability
                         ELSE Idle
    /\ lastCall' = <<"Tick">>
    /\ attackWait' = AttackWaitAfter(attackWait, bIsAttacking, CharacterState')
    /\ UNCHANGED <<damageVars, cooldownReset, abilityOpen>>
    /\ UNCHANGED <<now, moveVars, Velocity, attackVars, abilityVars, AttackBoxes,
                   abilityStarts>>

\* TickWalking with the test of bIsAbility before the test of bIsAttacking.
TickWalkingAbilityFirst(move) ==
    /\ CharacterState = Walking
    /\ LET resolved == UpdateFacing(MoveInputMap, bIsMoving, Facing, MoveDirection)
       IN  Facing' = resolved[1] /\ MoveDirection' = resolved[2]
    /\ hooks' = <<"WalkingState">>
    /\ LET walked == IF move THEN Move(MoveDirection', Velocity) ELSE Velocity IN
       IF bIsAbility
       THEN CharacterState' = Ability /\ Velocity' = walked
       ELSE IF bIsAttacking
       THEN CharacterState' = Attacking /\ Velocity' = walked
       ELSE IF ~bIsMoving
       THEN CharacterState' = Idle /\ Velocity' = SetVelocity(0, Facing', walked)
       ELSE CharacterState' = Walking /\ Velocity' = walked
    /\ lastCall' = <<"Tick">>
    /\ attackWait' = AttackWaitAfter(attackWait, bIsAttacking, CharacterState')
    /\ UNCHANGED <<damageVars, cooldownReset, abilityOpen>>
    /\ UNCHANGED <<now, moveVars, attackVars, abilityVars, AttackBoxes,
                   abilityStarts>>

\* Tick, case Walking; move: the WalkingState event calls Move().
TickWalking(move) ==
    /\ CharacterState = Walking
    /\ LET resolved == UpdateFacing(MoveInputMap, bIsMoving, Facing, MoveDirection)
       IN  Facing' = resolved[1] /\ MoveDirection' = resolved[2]
    /\ hooks' = <<"WalkingState">>
    /\ LET walked == IF move THEN Move(MoveDirection', Velocity) ELSE Velocity IN
       IF bIsAttacking
       THEN CharacterState' = Attacking /\ Velocity' = walked
       ELSE IF bIsAbility
       THEN CharacterState' = Ability /\ Velocity' = walked
       ELSE IF ~bIsMoving
       THEN CharacterState' = Idle /\ Velocity' = SetVelocity(0, Facing', walked)
       ELSE CharacterState' = Walking /\ Velocity' = walked
    /\ lastCall' = <<"Tick">>
    /\ attackWait' = AttackWaitAfter(attackWait, bIsAttacking, CharacterState')
    /\ UNCHANGED <<damageVars, cooldownReset, abilityOpen>>
    /\ UNCHANGED <<now, moveVars, attackVars, abilityVars, AttackBoxes,
                   abilityStarts>>

\* TickAttacking leaving for Walking on bIsMoving alone.
TickAttackingLeavesOnMove ==
    /\ CharacterState = Attacking
    /\ IF bIsMoving
       THEN CharacterState' = Walking /\ hooks' = <<>>
       ELSE IF ~bIsAttacking
       THEN CharacterState' = Idle /\ hooks' = <<>>
       ELSE /\ CharacterState' = Attacking
            /\ hooks' = IF ~attackStarted THEN <<"AttackState">> ELSE <<>>
    /\ lastCall' = <<"Tick">>
    /\ UNCHANGED <<damageVars, cooldownReset, abilityOpen, attackWait>>
    /\ UNCHANGED <<now, moveVars, faceVars, Velocity, attackVars, abilityVars,
                   AttackBoxes, abilityStarts>>

\* Tick, case Attacking.
TickAttacking ==
    /\ CharacterState = Attacking
    /\ IF ~bIsAttacking /\ bIsMoving
       THEN CharacterState' = Walking /\ hooks' = <<>>
       ELSE IF ~bIsAttacking
       THEN CharacterState' = Idle /\ hooks' = <<>>
       ELSE /\ CharacterState' = Attacking
            /\ hooks' = IF ~attackStarted THEN <<"AttackState">> ELSE <<>>
    /\ lastCall' = <<"Tick">>
    /\ UNCHANGED <<damageVars, cooldownReset, abilityOpen, attackWait>>
    /\ UNCHANGED <<now, moveVars, faceVars, Velocity, attackVars, abilityVars,
                   AttackBoxes, abilityStarts>>

\* TickAbility without the AbilityEnd event on the way to Walking.
TickAbilityNoEndWhenMoving ==
    /\ CharacterState = Ability
    /\ IF ~bIsAbility /\ bIsMoving
       THEN CharacterState' = Walking /\ hooks' = <<>>
       ELSE IF ~bIsAbility
       THEN CharacterState' = Idle /\ hooks' = <<"AbilityEnd">>
       ELSE CharacterState' = Ability /\ hooks' = <<"AbilityState">>
    /\ lastCall' = <<"Tick">>
    /\ abilityOpen' = (bIsAbility /\ abilityOpen)
    /\ UNCHANGED <<damageVars, cooldownReset, attackWait>>
    /\ UNCHANGED <<now, moveVars, faceVars, Velocity, attackVars, abilityVars,
                   AttackBoxes, abilityStarts>>

\* Tick, case Ability.
TickAbility ==
    /\ CharacterState = Ability
    /\ IF ~bIsAbility /\ bIsMoving
       THEN CharacterState' = Walking /\ hooks' = <<"AbilityEnd">>
       ELSE IF ~bIsAbility
       THEN CharacterState' = Idle /\ hooks' = <<"AbilityEnd">>
       ELSE CharacterState' = Ability /\ hooks' = <<"AbilityState">>
    /\ lastCall' = <<"Tick">>
    /\ abilityOpen' = (bIsAbility /\ abilityOpen)
    /\ UNCHANGED <<damageVars, cooldownReset, attackWait>>
    /\ UNCHANGED <<now, moveVars, faceVars, Velocity, attackVars, abilityVars,
                   AttackBoxes, abilityStarts>>

\* The AttackState event the last tick ran opens the hitbox.
AttackStateBeginAttack ==
    /\ lastCall = <<"Tick">>
    /\ hooks = <<"AttackState">>
    /\ BeginAttack

\* The AbilityState event the last tick ran ends the ability.
AbilityStateFinishAbility ==
    /\ lastCall = <<"Tick">>
    /\ hooks = <<"AbilityState">>
    /\ FinishAbility

\* Tick(DeltaSeconds): the case of the current CharacterState.
Tick ==
    \/ TickIdle
    \/ \E move \in BOOLEAN : TickWalking(move)
    \/ TickAttacking
    \/ TickAbility

\* -------------------------------------------------------- specifications

\* Every operation, each callable at any time.
Next ==
    \/ Advance
    \/ \E direction \in Direction, keyDown \in BOOLEAN :
           UpdateMovementInput(direction, keyDown)
    \/ \E active \in BOOLEAN : UpdateAttackInput(active)
    \/ \E active \in BOOLEAN : UpdateAbilityInput(active)
    \/ BeginAttack
    \/ FinishAttack
    \/ FinishAbility
    \/ ResetCooldown
    \/ \E other \in Actors, damageModifier \in 0..MaxModifier :
           Attack(other, damageModifier)
    \/ \E w \in BOOLEAN, a \in BOOLEAN, s \in BOOLEAN, d \in BOOLEAN :
           ResetInput(w, a, s, d)
    \/ TickIdle
    \/ \E move \in BOOLEAN : TickWalking(move)
    \/ TickAttacking
    \/ TickAbility

Spec == Init /\ [][Next]_vars

\* Attack alone, on a character of any AttackDamage.
NextAttack ==
    \E other \in Actors, damageModifier \in 0..MaxModifier :
        Attack(other, damageModifier)

SpecAttack == InitAttack /\ [][NextAttack]_vars

\* The directional input and the two states that resolve the facing, on a
\* running clock.
NextMove ==
    \/ Advance
    \/ \E direction \in Direction, keyDown \in BOOLEAN :
           UpdateMovementInput(direction, keyDown)
    \/ \E w \in BOOLEAN, a \in BOOLEAN, s \in BOOLEAN, d \in BOOLEAN :
           ResetInput(w, a, s, d)
    \/ TickIdle
    \/ \E move \in BOOLEAN : TickWalking(move)

SpecMove == Init /\ [][NextMove]_vars

\* The direction keys pressed under SpecNoReset.
NoResetKeys == {West}

\* Every input event, with the direction keys of NoResetKeys, FinishAttack,
\* FinishAbility and the tick on a running clock, without ResetCooldown and
\* ResetInput; BeginAttack is called by the AttackState event.
NextNoReset ==
    \/ Advance
    \/ \E direction \in NoResetKeys, keyDown \in BOOLEAN :
           UpdateMovementInput(direction, keyDown)
    \/ \E active \in BOOLEAN : UpdateAttackInput(active)
    \/ \E active \in BOOLEAN : UpdateAbilityInput(active)
    \/ AttackStateBeginAttack
    \/ FinishAttack
    \/ FinishAbility
    \/ TickIdle
    \/ \E move \in BOOLEAN : TickWalking(move)
    \/ TickAttacking
    \/ TickAbility

SpecNoReset == Init /\ [][NextNoReset]_vars

\* The attack and ability input with no direction key touched, FinishAttack,
\* FinishAbility, ResetCooldown and the tick on a running clock.
NextCombat ==
    \/ Advance
    \/ \E active \in BOOLEAN : UpdateAttackInput(active)
    \/ \E active \in BOOLEAN : UpdateAbilityInput(active)
    \/ AttackStateBeginAttack
    \/ FinishAttack
    \/ FinishAbility
    \/ ResetCooldown
    \/ TickIdle
    \/ TickAttacking
    \/ TickAbility

SpecCombat == Init /\ [][NextCombat]_vars

\* The direction keys pressed under SpecFsm.
FsmKeys == {North, West}

\* Every operation at one clock reading, with the direction keys of FsmKeys;
\* BeginAttack is called by the AttackState event.
NextFsm ==
    \/ \E direction \in FsmKeys, keyDown \in BOOLEAN :
           UpdateMovementInput(direction, keyDown)
    \/ \E active \in BOOLEAN : UpdateAttackInput(active)
    \/ \E active \in BOOLEAN : UpdateAbilityInput(active)
    \/ AttackStateBeginAttack
    \/ FinishAttack
    \/ FinishAbility
    \/ ResetCooldown
    \/ \E w \in BOOLEAN, a \in BOOLEAN : ResetInput(w, a, FALSE, FALSE)
    \/ TickIdle
    \/ \E move \in BOOLEAN : TickWalking(move)
    \/ TickAttacking
    \/ TickAbility

SpecFsm == Init /\ [][NextFsm]_vars

\* The direction keys pressed under SpecLive.
LiveKeys == {West}

\* The input events with the direction keys of LiveKeys, ResetCooldown and
\* the tick at one clock reading; BeginAttack is called by the AttackState
\* event and FinishAbility by the AbilityState event.
NextLive ==
    \/ \E direction \in LiveKeys, keyDown \in BOOLEAN :
           UpdateMovementInput(direction, keyDown)
    \/ \E active \in BOOLEAN : UpdateAttackInput(active)
    \/ \E active \in BOOLEAN : UpdateAbilityInput(active)
    \/ AttackStateBeginAttack
    \/ FinishAttack
    \/ AbilityStateFinishAbility
    \/ ResetCooldown
    \/ Tick

\* The engine ticks the actor every frame, and an attack in progress is
\* finished in the end.
Fairness ==
    /\ WF_vars(Tick)
    /\ WF_vars(bIsAttacking /\ FinishAttack)

SpecLive == Init /\ [][NextLive]_vars /\ Fairness

\* ---------------------------------------------------------------- claims

\* The last step was a tick evaluated in the Idle or Walking state.
TickedIdleOrWalking ==
    lastCall = <<"Tick">> /\ hooks \in {<<"IdleState">>, <<"WalkingState">>}

\* C1: in every state, and so right after every UpdateMovementInput call,
\* bIsMoving is true iff the last input event of at least one direction was
\* a press.
C1_MovingIffHeld == bIsMoving <=> (\E d \in Direction : held[d])

\* C1 witness: West was pressed after the clock moved on, every other key is
\* released after having been held, and the call has just returned.
C1_Witness ==
    /\ lastCall = <<"UpdateMovementInput", North, FALSE>>
    /\ held = [d \in Direction |-> d = West]
    /\ MoveInputMap[West] > ClockEpoch
    /\ bIsMoving

\* The place of a direction in the order North, East, South, West.
Rank(d) == CASE d = North -> 1 [] d = East -> 2 [] d = South -> 3 [] d = West -> 4

\* d is held, and no other held direction has a greater press timestamp, or
\* an equal one and an earlier place in the order.
MostRecentlyPressed(d) ==
    /\ held[d]
    /\ \A e \in Direction \ {d} :
           held[e] => \/ MoveInputMap[e] < MoveInputMap[d]
                      \/ MoveInputMap[e] = MoveInputMap[d] /\ Rank(d) < Rank(e)

\* C2: after a tick evaluated in the Idle or Walking state while bIsMoving is
\* true, Facing and MoveDirection are the most recently pressed held
\* direction, the first of North, East, South, West among equal timestamps.
C2_FacingIsMostRecentHeld ==
    (TickedIdleOrWalking /\ bIsMoving) =>
        \E d \in Direction :
            MostRecentlyPressed(d) /\ Facing = d /\ MoveDirection = d

\* C2 witness: North is held from an earlier clock reading, East and South
\* were pressed later at one clock reading, and the tick faced East.
C2_Witness ==
    /\ TickedIdleOrWalking
    /\ held = [d \in Direction |-> d # West]
    /\ MoveInputMap[North] < MoveInputMap[East]
    /\ MoveInputMap[East] = MoveInputMap[South]
    /\ Facing = East
    /\ MoveDirection = East

\* C3: a step changes Facing or MoveDirection only if it is a tick evaluated
\* in the Idle or Walking state while bIsMoving is true.
C3_FacingChangesOnlyWhileMoving ==
    [][(Facing' # Facing \/ MoveDirection' # MoveDirection) =>
           /\ lastCall' = <<"Tick">>
           /\ CharacterState \in {Idle, Walking}
           /\ bIsMoving]_vars

\* C3 witness: a tick in the Idle state with no key held has left the facing
\* West of an earlier walk.
C3_Witness ==
    /\ lastCall = <<"Tick">>
    /\ hooks = <<"IdleState">>
    /\ ~bIsMoving
    /\ CharacterState = Idle
    /\ Facing = West
    /\ MoveDirection = West

\* The timers and the flag an ability start writes.
abilityTimers == <<bIsAbility, abilityDownTime, abilityCooldownTime, abilityStarts>>

\* C4: UpdateAbilityInput(true) called less than AbilityCooldown after
\* abilityCooldownTime calls no AbilityStart and leaves bIsAbility,
\* abilityDownTime and abilityCooldownTime as they were.
C4_CooldownDropsRequest ==
    [][(/\ lastCall' = <<"UpdateAbilityInput", TRUE>>
        /\ now - abilityCooldownTime < AbilityCooldown)
           => (hooks' = <<>> /\ UNCHANGED abilityTimers)]_vars

\* C4 witness: the ability was used and finished, and a press within the
\* cooldown has just returned with nothing started.
C4_Witness ==
    /\ lastCall = <<"UpdateAbilityInput", TRUE>>
    /\ abilityCooldownTime # ClearedTime
    /\ now - abilityCooldownTime < AbilityCooldown
    /\ ~bIsAbility
    /\ abilityDownTime = ClearedTime
    /\ hooks = <<>>

\* What UpdateAbilityInput does when it starts the ability at clock t.
AbilityStartedAt(t) ==
    /\ hooks' = <<"AbilityStart">>
    /\ bIsAbility'
    /\ abilityDownTime' = t
    /\ abilityCooldownTime' = t

\* C5 as stated: the key flag is stored; a rising edge with the ability not
\* active and the cooldown over starts it once and records both times; a
\* call while the ability is active, or one that is no rising edge, starts
\* nothing.
C5_Original ==
    [][\A active \in BOOLEAN :
           lastCall' = <<"UpdateAbilityInput", active>> =>
               LET rising == active /\ ~abilityKeyDown
                   ready == ~bIsAbility /\ now - abilityCooldownTime >= AbilityCooldown
               IN  /\ abilityKeyDown' = active
                   /\ (rising /\ ready) => AbilityStartedAt(now)
                   /\ bIsAbility => (hooks' = <<>> /\ UNCHANGED abilityTimers)
                   /\ ~rising => (hooks' = <<>> /\ UNCHANGED abilityTimers)]_vars

\* C5 amended: the key flag is stored; every call with active true, the key
\* already down or not, made with the ability not active and the cooldown
\* over starts it once and records both times; a call while the ability is
\* active, within the cooldown, or with active false starts nothing.
C5_AbilityInput ==
    [][\A active \in BOOLEAN :
           lastCall' = <<"UpdateAbilityInput", active>> =>
               LET ready == ~bIsAbility /\ now - abilityCooldownTime >= AbilityCooldown
               IN  /\ abilityKeyDown' = active
                   /\ (active /\ ready) => AbilityStartedAt(now)
                   /\ ~(active /\ ready) => (hooks' = <<>> /\ UNCHANGED abilityTimers)]_vars

\* C5 witness: a call with active true has just started the ability a second
\* time and recorded the clock in both timers.
C5_Witness ==
    /\ lastCall = <<"UpdateAbilityInput", TRUE>>
    /\ hooks = <<"AbilityStart">>
    /\ Len(abilityStarts) = 2
    /\ bIsAbility
    /\ abilityDownTime = now
    /\ abilityCooldownTime = now

\* C6: without ResetCooldown, two successive calls of AbilityStart are at
\* least AbilityCooldown apart on the clock.
C6_ActivationsSpaced ==
    Len(abilityStarts) = 2 =>
        abilityStarts[2] - abilityStarts[1] >= AbilityCooldown

\* C6 witness: the ability has just been started a second time.
C6_Witness ==
    /\ lastCall = <<"UpdateAbilityInput", TRUE>>
    /\ hooks = <<"AbilityStart">>
    /\ Len(abilityStarts) = 2
    /\ abilityStarts[2] = now

\* C7 as stated: the key flag is stored; every rising edge sets bIsAttacking
\* and records the clock in attackDownTime; any other call changes neither.
C7_Original ==
    [][\A active \in BOOLEAN :
           lastCall' = <<"UpdateAttackInput", active>> =>
               LET rising == active /\ ~attackKeyDown
               IN  /\ attackKeyDown' = active
                   /\ rising => (bIsAttacking' /\ attackDownTime' = now)
                   /\ ~rising => UNCHANGED <<bIsAttacking, attackDownTime>>]_vars

\* C7 amended: the key flag is stored; every call with active true made
\* while bIsAttacking is false sets bIsAttacking and records the clock in
\* attackDownTime; any other call (active false, or bIsAttacking already
\* true) changes neither.
C7_AttackInput ==
    [][\A active \in BOOLEAN :
           lastCall' = <<"UpdateAttackInput", active>> =>
               LET starts == active /\ ~bIsAttacking
               IN  /\ attackKeyDown' = active
                   /\ starts => (bIsAttacking' /\ attackDownTime' = now)
                   /\ ~starts => UNCHANGED <<bIsAttacking, attackDownTime>>]_vars

\* C7 witness: a press during an attack that began at an earlier clock
\* reading has left attackDownTime at that reading.
C7_Witness ==
    /\ lastCall = <<"UpdateAttackInput", TRUE>>
    /\ attackKeyDown
    /\ bIsAttacking
    /\ attackDownTime # ClearedTime
    /\ attackDownTime < now

\* C8: a tick evaluated in the Idle state goes to Walking if bIsMoving, else
\* to Attacking if bIsAttacking, else to Ability if bIsAbility, else stays.
C8_IdleTick ==
    [][(lastCall' = <<"Tick">> /\ CharacterState = Idle) =>
           CharacterState' = IF bIsMoving THEN Walking
                             ELSE IF bIsAttacking THEN Attacking
                             ELSE IF bIsAbility THEN Ability
                             ELSE Idle]_vars

\* C8 witness: Idle, North pressed with an attack and an ability pending,
\* and the tick has gone to Walking.
C8_Witness ==
    /\ lastCall = <<"Tick">>
    /\ hooks = <<"IdleState">>
    /\ held[North]
    /\ bIsAttacking
    /\ bIsAbility
    /\ CharacterState = Walking

\* C9: a tick evaluated in the Walking state goes to Attacking if
\* bIsAttacking, else to Ability if bIsAbility, else, if bIsMoving is false,
\* to Idle with the velocity zero, else stays Walking.
C9_WalkingTick ==
    [][(lastCall' = <<"Tick">> /\ CharacterState = Walking) =>
           /\ CharacterState' = IF bIsAttacking THEN Attacking
                                ELSE IF bIsAbility THEN Ability
                                ELSE IF ~bIsMoving THEN Idle
                                ELSE Walking
           /\ CharacterState' = Idle => Velocity' = ZeroVector]_vars

\* C9 witness: a walk West, every key released, and the tick has gone to
\* Idle with the velocity zero.
C9_Witness ==
    /\ lastCall = <<"Tick">>
    /\ hooks = <<"WalkingState">>
    /\ CharacterState = Idle
    /\ Facing = West
    /\ ~bIsMoving
    /\ Velocity = ZeroVector

\* C10: a tick evaluated in the Attacking state stays there while
\* bIsAttacking is true, and with bIsAttacking false goes to Walking if
\* bIsMoving and to Idle otherwise; a step calls AttackState only as a tick
\* in the Attacking state with bIsAttacking true and attackStarted false.
C10_AttackingTick ==
    [][/\ (lastCall' = <<"Tick">> /\ CharacterState = Attacking) =>
              CharacterState' = IF bIsAttacking THEN Attacking
                                ELSE IF bIsMoving THEN Walking
                                ELSE Idle
       /\ (\E i \in 1..Len(hooks') : hooks'[i] = "AttackState") =>
              /\ lastCall' = <<"Tick">>
              /\ CharacterState = Attacking
              /\ bIsAttacking
              /\ ~attackStarted]_vars

\* C10 witness: a tick in the Attacking state with the hitbox opened, a key
\* held and an ability pending has stayed Attacking and called no event.
C10_Witness ==
    /\ lastCall = <<"Tick">>
    /\ hooks = <<>>
    /\ CharacterState = Attacking
    /\ bIsAttacking
    /\ attackStarted
    /\ bIsMoving
    /\ bIsAbility

\* A step of Tick.
IsTick == lastCall' = <<"Tick">>

\* C11: a tick in the Ability state with bIsAbility true stays in Ability and
\* runs the AbilityState event and no AbilityEnd; a tick in the Ability state
\* with bIsAbility false runs AbilityEnd once and nothing else, and goes to
\* Walking if bIsMoving and to Idle otherwise; and AbilityEnd is run by no
\* other step than a tick in the Ability state with bIsAbility false.
C11_AbilityTick ==
    [][ /\ (IsTick /\ CharacterState = Ability /\ bIsAbility) =>
              (CharacterState' = Ability /\ hooks' = <<"AbilityState">>)
        /\ (IsTick /\ CharacterState = Ability /\ ~bIsAbility) =>
              /\ hooks' = <<"AbilityEnd">>
              /\ CharacterState' = (IF bIsMoving THEN Walking ELSE Idle)
        /\ (\E i \in 1..Len(hooks') : hooks'[i] = "AbilityEnd") =>
              (IsTick /\ CharacterState = Ability /\ ~bIsAbility)
      ]_vars

\* C11: a tick has just left the Ability state for Walking and run AbilityEnd.
C11_Witness ==
    /\ lastCall = <<"Tick">>
    /\ hooks = <<"AbilityEnd">>
    /\ CharacterState = Walking
    /\ bIsMoving
    /\ ~bIsAbility

\* The next state of the state switch of Tick, from the order of its tests.
TickTarget ==
    CASE CharacterState = Idle ->
             IF bIsMoving THEN Walking
             ELSE IF bIsAttacking THEN Attacking
             ELSE IF bIsAbility THEN Ability ELSE Idle
      [] CharacterState = Walking ->
             IF bIsAttacking THEN Attacking
             ELSE IF bIsAbility THEN Ability
             ELSE IF bIsMoving THEN Walking ELSE Idle
      [] CharacterState = Attacking ->
             IF bIsAttacking THEN Attacking
             ELSE IF bIsMoving THEN Walking ELSE Idle
      [] CharacterState = Ability ->
             IF bIsAbility THEN Ability
             ELSE IF bIsMoving THEN Walking ELSE Idle

\* C12: a step that changes CharacterState is a tick; a tick takes the one
\* transition of the first test that matches, so from Idle with bIsMoving it
\* ends in Walking even with bIsAttacking true, and the tick after that one
\* is the one that reaches Attacking.
C12_OneTransitionPerTick ==
    [][ /\ (CharacterState' # CharacterState) => IsTick
        /\ IsTick => CharacterState' = TickTarget
        /\ (IsTick /\ CharacterState = Idle /\ bIsMoving /\ bIsAttacking) =>
              CharacterState' = Walking
      ]_vars

\* C12: a tick from Idle with bIsMoving and bIsAttacking both true has just
\* stopped in Walking, the attack still waiting.
C12_Witness ==
    /\ lastCall = <<"Tick">>
    /\ hooks = <<"IdleState">>
    /\ CharacterState = Walking
    /\ bIsMoving
    /\ bIsAttacking
    /\ attackWait = 1

\* base doubled n times.
RECURSIVE Doubled(_, _)
Doubled(base, n) == IF n = 0 THEN base ELSE Doubled(base + base, n - 1)

AttackStarts == ~bIsAttacking /\ bIsAttacking'
AbilityStarts == ~bIsAbility /\ bIsAbility'

\* C14 as stated: the start of the attack records attackDownTime and the
\* start of the ability records abilityDownTime and abilityCooldownTime;
\* FinishAttack clears attackDownTime and FinishAbility clears both
\* abilityDownTime and abilityCooldownTime.
C14_Original ==
    [][ /\ AttackStarts => attackDownTime' = now
        /\ AbilityStarts => (abilityDownTime' = now /\ abilityCooldownTime' = now)
        /\ lastCall' = <<"FinishAttack">> => attackDownTime' = ClearedTime
        /\ lastCall' = <<"FinishAbility">> =>
              (abilityDownTime' = ClearedTime /\ abilityCooldownTime' = ClearedTime)
      ]_vars

\* C14 amended: attackDownTime holds a timestamp exactly while bIsAttacking
\* and abilityDownTime exactly while bIsAbility: each is set to the clock by
\* the step that starts its action, cleared by FinishAttack or FinishAbility,
\* and changed by no other step. abilityCooldownTime is set to the clock by
\* the step that starts the ability, is left as it is by FinishAbility, and
\* is changed by no other step than ResetCooldown, which clears it.
C14_Timers ==
    /\ [](bIsAttacking <=> attackDownTime # ClearedTime)
    /\ [](bIsAbility <=> abilityDownTime # ClearedTime)
    /\ [][ /\ AttackStarts => attackDownTime' = now
           /\ AbilityStarts =>
                 (abilityDownTime' = now /\ abilityCooldownTime' = now)
           /\ lastCall' = <<"FinishAttack">> =>
                 (~bIsAttacking' /\ attackDownTime' = ClearedTime)
           /\ lastCall' = <<"FinishAbility">> =>
                 /\ ~bIsAbility'
                 /\ abilityDownTime' = ClearedTime
                 /\ abilityCooldownTime' = abilityCooldownTime
           /\ lastCall' = <<"ResetCooldown">> =>
                 abilityCooldownTime' = ClearedTime
           /\ attackDownTime' # attackDownTime =>
                 (AttackStarts \/ lastCall' = <<"FinishAttack">>)
           /\ abilityDownTime' # abilityDownTime =>
                 (AbilityStarts \/ lastCall' = <<"FinishAbility">>)
           /\ abilityCooldownTime' # abilityCooldownTime =>
                 (AbilityStarts \/ lastCall' = <<"ResetCooldown">>)
         ]_vars

\* C14: FinishAbility has just ended an ability: abilityDownTime is cleared
\* and abilityCooldownTime still holds the time of the start.
C14_Witness ==
    /\ lastCall = <<"FinishAbility">>
    /\ ~bIsAbility
    /\ abilityDownTime = ClearedTime
    /\ abilityCooldownTime # ClearedTime
    /\ abilityStarts # <<>>
    /\ abilityCooldownTime = abilityStarts[Len(abilityStarts)]

\* C15: ResetCooldown runs no event and leaves bIsAbility, abilityDownTime
\* and CharacterState as they were; and a call of UpdateAbilityInput(true)
\* made with the ability not active, after a ResetCooldown that no start of
\* the ability has followed, starts the ability at any clock reading.
C15_ResetCooldown ==
    [][ /\ lastCall' = <<"ResetCooldown">> =>
              /\ hooks' = <<>>
              /\ UNCHANGED <<bIsAbility, abilityDownTime, CharacterState,
                             abilityStarts, abilityOpen>>
        /\ (lastCall' = <<"UpdateAbilityInput", TRUE>> /\ cooldownReset
              /\ ~bIsAbility) => AbilityStartedAt(now)
      ]_vars

\* C15: after a ResetCooldown, UpdateAbilityInput(true) has just started the
\* ability less than AbilityCooldown after the start before it.
C15_Witness ==
    /\ lastCall = <<"UpdateAbilityInput", TRUE>>
    /\ hooks = <<"AbilityStart">>
    /\ ~cooldownReset
    /\ Len(abilityStarts) = 2
    /\ abilityStarts[2] - abilityStarts[1] < AbilityCooldown
    /\ abilityCooldownTime = now

\* The event e is run by the step.
Runs(e) == \E i \in 1..Len(hooks') : hooks'[i] = e

\* C16: AbilityStart and AbilityEnd alternate, AbilityStart first: AbilityEnd
\* is run only when an AbilityStart has no AbilityEnd yet, and AbilityStart
\* is run only when every AbilityStart before it has had its AbilityEnd.
C16_StartEndAlternate ==
    [][ /\ Runs("AbilityEnd") => abilityOpen
        /\ Runs("AbilityStart") => ~abilityOpen
      ]_vars

\* C17: with BeginAttack called by the AttackState event only, an enabled
\* hitbox is the one of Facing (so at most one is enabled), and it is enabled
\* only in the Attacking state with bIsAttacking and attackStarted true;
\* after FinishAttack no hitbox is enabled.
C17_Hitboxes ==
    /\ \A d \in Direction :
          AttackBoxes[d] =>
              /\ d = Facing
              /\ CharacterState = Attacking
              /\ bIsAttacking
              /\ attackStarted
    /\ lastCall = <<"FinishAttack">> => \A d \in Direction : ~AttackBoxes[d]

\* C17: BeginAttack has just enabled the hitbox of a character facing West.
C17_Witness ==
    /\ lastCall = <<"BeginAttack">>
    /\ Facing = West
    /\ AttackBoxes[West]
    /\ CharacterState = Attacking

\* C18: a tick that takes CharacterState from Walking, Attacking or Ability
\* to Idle leaves Velocity zero.
C18_IdleHasZeroVelocity ==
    [][(IsTick /\ CharacterState # Idle /\ CharacterState' = Idle)
           => Velocity' = ZeroVector]_vars

C20_AbilityIsServed == bIsAbility ~> (CharacterState = Ability)

====
